---------------------------- MODULE Spec2Model ----------------------------
(***************************************************************************)
(* State-machine model of covid19_inference/data_retrieval.py.             *)
(*                                                                         *)
(* The module holds five independent entry points of the source file, each *)
(* with its own specification over its own group of variables:             *)
(*   SpecClone      clone_jhu_at_time          (git clone / rev-list /     *)
(*                                              checkout)                  *)
(*   SpecJhu        get_jhu_confirmed_cases, get_jhu_deaths                *)
(*   SpecRki        get_rki                                                *)
(*   SpecCountry    filter_one_country                                     *)
(*   SpecFilterRki  filter_rki                                             *)
(* A specification parks the variables of the other entry points at fixed  *)
(* values.  External collaborators (git, HTTP, the file system) are the    *)
(* environment: their answers are chosen nondeterministically.             *)
(***************************************************************************)
EXTENDS Integers, Sequences, FiniteSets, TLC

VARIABLES
    \* ---- clone_jhu_at_time
    checkout_time,   \* the argument; rebound to its ISO string at line 44
    clone_pc,        \* position inside clone_jhu_at_time
    clone_exc,       \* exception that left clone_jhu_at_time, or "none"
    clone_ret,       \* returned tuple of paths, <<>> while nothing returned
    io_log,          \* git commands run so far, in order
    repodir,         \* <workdir>/jhu_repo on disk
    commit_id,       \* stdout of git rev-list, stripped
    upstream,        \* commit times (UTC) on master of the remote repository
    \* ---- get_jhu_confirmed_cases / get_jhu_deaths
    remote_csv,      \* what the two raw.githubusercontent.com URLs serve
    fallback_csv,    \* data/confirmed_global_fallback_2020-04-07.csv
    jhu_fn,          \* which function was called last
    jhu_fetch,       \* how the remote pd.read_csv of that call ended
    jhu_exc,         \* exception that left the call, or "none"
    jhu_ret,         \* returned table
    url_reads,       \* number of remote reads made by that call
    \* ---- get_rki
    rki_pc,          \* position inside get_rki
    n_data,          \* the local n_data (lines 234 and 254)
    unique_ids,      \* the local unique_ids: the distinct ids, 1..n here
    id_pos,          \* number of unique_ids the for loop has taken
    df,              \* the local df
    rki_exc,         \* exception that left get_rki, or "none"
    rki_ret,         \* returned table
    requests,        \* urlopen calls made: enumeration and per region
    rki_fallback,    \* data/rki_fallback.csv
    \* ---- filter_one_country
    data_df, country, begin_date, end_date,   \* the arguments
    foc_pc,          \* "call" before, "done" after
    foc_exc,         \* exception that left the call, or "none"
    cases_obs,       \* returned flat array
    \* ---- filter_rki
    frki_df,         \* the caller's table, passed as df
    frki_args,       \* arguments of the last call
    frki_exc,        \* exception that left the last call, or "none"
    frki_ret         \* array returned by the last call

cloneVars == <<checkout_time, clone_pc, clone_exc, clone_ret, io_log,
               repodir, commit_id, upstream>>
jhuVars == <<remote_csv, fallback_csv, jhu_fn, jhu_fetch, jhu_exc, jhu_ret,
             url_reads>>
rkiVars == <<rki_pc, n_data, unique_ids, id_pos, df, rki_exc, rki_ret,
             requests, rki_fallback>>
focVars == <<data_df, country, begin_date, end_date, foc_pc, foc_exc,
             cases_obs>>
frkiVars == <<frki_df, frki_args, frki_exc, frki_ret>>
vars == <<cloneVars, jhuVars, rkiVars, focVars, frkiVars>>

(***************************************************************************)
(* Generic helpers.                                                        *)
(***************************************************************************)
Range(s) == {s[i] : i \in DOMAIN s}

SeqsUpTo(S, n) == UNION {[1..k -> S] : k \in 0..n}

Max(S) == CHOOSE x \in S : \A y \in S : y <= x

(***************************************************************************)
(* clone_jhu_at_time                                                       *)
(***************************************************************************)
\* Latest clock value of a checkout_time and of a commit.
MaxTime == 3
\* Largest UTC offset (in clock units) of a timezone-aware checkout_time.
MaxOffset == 1
\* Length of a git commit hash, as tested at line 50.
HashLen == 40

\* tzinfo is <<>> for a naive datetime (None) and <<offset>> for an aware one.
TzInfos == {<<>>} \cup {<<o>> : o \in (0 - MaxOffset)..MaxOffset}

Datetimes == [kind : {"datetime"}, t : 0..MaxTime, tzinfo : TzInfos]

\* `not checkout_time.tzinfo` of line 35 (mutant: the test is gone).
TzMissingNever(ct) == FALSE
TzMissing(ct) == ct.tzinfo = <<>>

\* checkout_time.isoformat(): local clock value followed by the offset text.
IsoFormat(ct) == [kind |-> "str", t |-> ct.t, tzinfo |-> ct.tzinfo]

\* The instant git reads from the --until string.
UntilInstant(iso) == iso.t - (IF iso.tzinfo = <<>> THEN 0 ELSE iso.tzinfo[1])

\* The 40 characters git prints for the commit made at time c.
Hash(c) == [i \in 1..HashLen |-> c]

\* stdout.strip() of `git rev-list -1 --until=... master` run in repodir.
RevList(dir, iso) ==
    LET old == {c \in dir.commits : c <= UntilInstant(iso)}
    IN  IF dir.state = "repo" /\ old # {} THEN Hash(Max(old)) ELSE <<>>

\* The test of line 50, negated (mutant: shorter output is accepted too).
ValidCommitIdAtMost(id) == Len(id) <= HashLen
ValidCommitId(id) == Len(id) = HashLen

ClonePaths == <<"time_series_covid19_confirmed_global.csv",
                "time_series_covid19_deaths_global.csv",
                "time_series_covid19_recovered_global.csv">>

\* A directory on disk: absent, something that is no repository, or a clone
\* with its commits and its checked-out head (a branch or a detached commit).
NoHead == [ref |-> "none", commit |-> 0]
NoDir == [state |-> "absent", commits |-> {}, head |-> NoHead]
OtherDir == [state |-> "nonrepo", commits |-> {}, head |-> NoHead]
Cloned(commits) ==
    [state |-> "repo", commits |-> commits,
     head |-> [ref |-> "master",
               commit |-> IF commits = {} THEN 0 ELSE Max(commits)]]

CloneInit ==
    /\ checkout_time \in Datetimes
    /\ upstream \in SUBSET (1..MaxTime)
    /\ repodir \in {NoDir, OtherDir}
    /\ clone_pc = "start"
    /\ clone_exc = "none"
    /\ clone_ret = <<>>
    /\ io_log = <<>>
    /\ commit_id = <<>>

CloneParked ==
    /\ checkout_time = [kind |-> "datetime", t |-> 0, tzinfo |-> <<>>]
    /\ upstream = {}
    /\ repodir = NoDir
    /\ clone_pc = "parked"
    /\ clone_exc = "none"
    /\ clone_ret = <<>>
    /\ io_log = <<>>
    /\ commit_id = <<>>

\* Lines 35-36: the timezone test on entry.
CheckTimezone ==
    /\ clone_pc = "start"
    /\ IF TzMissing(checkout_time)
       THEN clone_pc' = "raised" /\ clone_exc' = "ValueError"
       ELSE clone_pc' = "clone" /\ UNCHANGED clone_exc
    /\ UNCHANGED <<checkout_time, clone_ret, io_log, repodir, commit_id, upstream>>
    /\ UNCHANGED <<jhuVars, rkiVars, focVars, frkiVars>>

\* Lines 38-41: subprocess.run('git clone ...') without check.  The process
\* may fail to start (OSError), fail (target exists, network down) or clone.
GitClone ==
    /\ clone_pc = "clone"
    /\ io_log' = Append(io_log, "clone")
    /\ \E started \in BOOLEAN, network \in BOOLEAN :
         IF ~started
         THEN /\ clone_pc' = "raised" /\ clone_exc' = "OSError"
              /\ UNCHANGED repodir
         ELSE /\ clone_pc' = "rev_list" /\ UNCHANGED clone_exc
              /\ repodir' = IF repodir.state = "absent" /\ network
                            THEN Cloned(upstream)
                            ELSE repodir
    /\ UNCHANGED <<checkout_time, clone_ret, commit_id, upstream>>
    /\ UNCHANGED <<jhuVars, rkiVars, focVars, frkiVars>>

\* Lines 44-51: the ISO string, git rev-list with cwd=repodir, the length test.
GitRevList ==
    /\ clone_pc = "rev_list"
    /\ checkout_time' = IsoFormat(checkout_time)
    /\ io_log' = Append(io_log, "rev-list")
    /\ IF repodir.state = "absent"
       THEN \* cwd does not exist: subprocess.run raises
            /\ clone_pc' = "raised" /\ clone_exc' = "OSError"
            /\ UNCHANGED commit_id
       ELSE /\ commit_id' = RevList(repodir, checkout_time')
            /\ IF ValidCommitId(commit_id')
               THEN clone_pc' = "checkout" /\ UNCHANGED clone_exc
               ELSE clone_pc' = "raised" /\ clone_exc' = "Exception"
    /\ UNCHANGED <<clone_ret, repodir, upstream>>
    /\ UNCHANGED <<jhuVars, rkiVars, focVars, frkiVars>>

\* Lines 53-65: git checkout with check=True, then the three paths.
GitCheckout ==
    /\ clone_pc = "checkout"
    /\ io_log' = Append(io_log, "checkout")
    /\ \E ok \in BOOLEAN :
         IF ok /\ repodir.state = "repo" /\ commit_id \in {Hash(c) : c \in repodir.commits}
         THEN /\ repodir' = [repodir EXCEPT
                               !.head = [ref |-> "detached", commit |-> commit_id[1]]]
              /\ clone_pc' = "returned"
              /\ clone_ret' = ClonePaths
              /\ UNCHANGED clone_exc
         ELSE /\ clone_pc' = "raised" /\ clone_exc' = "CalledProcessError"
              /\ UNCHANGED <<repodir, clone_ret>>
    /\ UNCHANGED <<checkout_time, commit_id, upstream>>
    /\ UNCHANGED <<jhuVars, rkiVars, focVars, frkiVars>>

(***************************************************************************)
(* The wide JHU table: one row per (Country/Region, Province/State), one   *)
(* column per date, the header of a date column being the text m/d/yy.     *)
(***************************************************************************)
\* Number of date columns of a table.
NDates == 2
\* Largest number of rows of a table.
MaxRows == 2
\* Largest number of leading dates for which a row has no count yet.
MaxGap == 1
\* A missing cell (pandas NaN); counts are never negative.
NaN == -1

Countries == {"A", "B"}
\* Province/State: "NaN" is the missing value tested by isnull().
States == {"NaN", "X"}

\* A row: its first gap cells are missing, then the count on date j is j.
RawRows ==
    {[country |-> c, state |-> st,
      cells |-> [j \in 1..NDates |-> IF j <= gap THEN NaN ELSE j]] :
        c \in Countries, st \in States, gap \in 0..MaxGap}

\* Calendar days of January 2020; the last one heads no column.
PyDates == [year : {2020}, month : {1}, day : 1..(NDates + 1)]

\* Lines 320-322: "{}/{}/{}".format(month, day, str(year)[2:4]).
_format_date(date_py) == <<date_py.month, date_py.day, date_py.year % 100>>

\* Header of the j-th date column, as the CSV writes it.
ColumnLabel(j) == <<1, j, 20>>

HasLabel(l) == \E j \in 1..NDates : ColumnLabel(j) = l
LabelPos(l) == CHOOSE j \in 1..NDates : ColumnLabel(j) = l

\* .loc[begin:end] by label over the date columns: both ends included;
\* KeyError when a label heads no column (the header is not sorted as text).
LocSlice(values, bl, el) ==
    IF HasLabel(bl) /\ HasLabel(el)
    THEN [exc |-> "none", value |-> SubSeq(values, LabelPos(bl), LabelPos(el))]
    ELSE [exc |-> "KeyError", value |-> <<>>]

RECURSIVE SumCells(_, _, _)
\* DataFrame.sum() of one column over the rows idxs, NaN skipped.
SumCells(rows, idxs, j) ==
    IF idxs = {} THEN 0
    ELSE LET i == CHOOSE x \in idxs : TRUE
             c == rows[i].cells[j]
         IN  (IF c = NaN THEN 0 ELSE c) + SumCells(rows, idxs \ {i}, j)

\* Line 200: the rows with no Province/State whose Country/Region is country.
\* (mutant: the isnull() test is lost)
BareRowsAnyState(rows, c) == {i \in DOMAIN rows : rows[i].country = c}
BareRows(rows, c) ==
    {i \in DOMAIN rows : rows[i].state = "NaN" /\ rows[i].country = c}

\* Lines 197-210.
filter_one_country(rows, c, begin, end) ==
    LET date_formatted_begin == _format_date(begin)
        date_formatted_end == _format_date(end)
        y == BareRows(rows, c)
    IN  IF Cardinality(y) = 1
        THEN LocSlice(rows[CHOOSE i \in y : TRUE].cells,
                      date_formatted_begin, date_formatted_end)
        ELSE IF Cardinality(y) = 0
        THEN LocSlice([j \in 1..NDates |->
                          SumCells(rows, {i \in DOMAIN rows : rows[i].country = c}, j)],
                      date_formatted_begin, date_formatted_end)
        ELSE [exc |-> "RuntimeError", value |-> <<>>]

FocInit ==
    /\ data_df \in SeqsUpTo(RawRows, MaxRows)
    /\ country \in Countries
    /\ begin_date \in PyDates
    /\ end_date \in PyDates
    /\ foc_pc = "call"
    /\ foc_exc = "none"
    /\ cases_obs = <<>>

FocParked ==
    /\ data_df = <<>>
    /\ country = "A"
    /\ begin_date = [year |-> 2020, month |-> 1, day |-> 1]
    /\ end_date = [year |-> 2020, month |-> 1, day |-> 1]
    /\ foc_pc = "parked"
    /\ foc_exc = "none"
    /\ cases_obs = <<>>

\* One call of filter_one_country on the arguments.
FilterOneCountry ==
    /\ foc_pc = "call"
    /\ LET r == filter_one_country(data_df, country, begin_date, end_date)
       IN  foc_exc' = r.exc /\ cases_obs' = r.value
    /\ foc_pc' = "done"
    /\ UNCHANGED <<data_df, country, begin_date, end_date>>
    /\ UNCHANGED <<cloneVars, jhuVars, rkiVars, frkiVars>>

(***************************************************************************)
(* get_jhu_confirmed_cases / get_jhu_deaths                                *)
(***************************************************************************)
\* The CSV texts the environment may hold: pd.read_csv gives these tables.
CsvTables ==
    { <<>>,
      <<[country |-> "A", state |-> "NaN", cells |-> [j \in 1..NDates |-> 1]]>>,
      <<[country |-> "A", state |-> "X", cells |-> [j \in 1..NDates |-> 1]],
        [country |-> "B", state |-> "NaN", cells |-> [j \in 1..NDates |-> NaN]]>> }

\* How pd.read_csv(url) can end: timeout, malformed response, no connection.
FetchFailures == {"TimeoutError", "ParserError", "URLError"}
FetchOutcomes == {"ok"} \cup FetchFailures

\* `except Exception` of lines 148 and 173 (mutant: only URLError is caught).
CaughtOnlyUrlError(e) == e = "URLError"
Caught(e) == e \in FetchFailures

\* Lines 150-153 and 175-178: both functions read the same bundled file,
\* data/confirmed_global_fallback_2020-04-07.csv; a missing file propagates.
ReadFallback ==
    IF fallback_csv.exists
    THEN [exc |-> "none", value |-> fallback_csv.table]
    ELSE [exc |-> "FileNotFoundError", value |-> <<>>]

JhuInit ==
    /\ remote_csv \in [confirmed : CsvTables, deaths : CsvTables]
    /\ fallback_csv \in [exists : BOOLEAN, table : CsvTables]
    /\ jhu_fn = "none"
    /\ jhu_fetch = "none"
    /\ jhu_exc = "none"
    /\ jhu_ret = <<>>
    /\ url_reads = 0

JhuParked ==
    /\ remote_csv = [confirmed |-> <<>>, deaths |-> <<>>]
    /\ fallback_csv = [exists |-> FALSE, table |-> <<>>]
    /\ jhu_fn = "parked"
    /\ jhu_fetch = "none"
    /\ jhu_exc = "none"
    /\ jhu_ret = <<>>
    /\ url_reads = 0

\* The try/except of one call: one remote read; on a caught exception the
\* bundled file is read instead.
TryRemote(fn, served, outcome) ==
    /\ jhu_fn' = fn
    /\ jhu_fetch' = outcome
    /\ url_reads' = 1
    /\ LET r == IF outcome = "ok"
                THEN [exc |-> "none", value |-> served]
                ELSE IF Caught(outcome)
                THEN ReadFallback
                ELSE [exc |-> outcome, value |-> <<>>]
       IN  jhu_exc' = r.exc /\ jhu_ret' = r.value
    /\ UNCHANGED <<remote_csv, fallback_csv>>
    /\ UNCHANGED <<cloneVars, rkiVars, focVars, frkiVars>>

\* Lines 145-155.
GetJhuConfirmedCases ==
    \E outcome \in FetchOutcomes :
        TryRemote("get_jhu_confirmed_cases", remote_csv.confirmed, outcome)

\* Lines 170-180.
GetJhuDeaths ==
    \E outcome \in FetchOutcomes :
        TryRemote("get_jhu_deaths", remote_csv.deaths, outcome)

(***************************************************************************)
(* get_rki                                                                 *)
(***************************************************************************)
\* Number of Landkreise the enumeration must give, line 238.
ExpectedLandkreise == 412
\* Largest result set of one per-region query, line 256.
QueryLimit == 5000
\* Most records the per-region answers of one call hold together.
MaxLiveRows == 10002

\* len(json_data['features']) of the enumeration: short, right or long lists.
EnumCounts == {0, 400, ExpectedLandkreise - 1, ExpectedLandkreise,
               ExpectedLandkreise + 1}

\* len(json_data['features']) of one per-region query.
RegionCounts == {0, QueryLimit, QueryLimit + 1}

\* Rows of data/rki_fallback.csv: the date column is the text dd-mm-YYYY.
FallbackRows ==
    [AnzahlFall : {1}, date : {<<7, 4, 2020>>, <<8, 4, 2020>>}]
FallbackFiles == SeqsUpTo(FallbackRows, 2)

\* Line 238 (mutant: shorter lists pass the test too).
ExpectedCountAtMost(n) == n <= ExpectedLandkreise
IsExpectedCount(n) == n = ExpectedLandkreise

\* Lines 256-257: the ValueError is built inside the if and dropped, no
\* raise statement: nothing leaves the check.
QueryLimitCheck(n) == IF n > QueryLimit THEN "none" ELSE "none"

\* Line 245: the empty frame with the df_keys columns.
EmptyFrame == [origin |-> "arcgis", nrows |-> 0, rows |-> <<>>, date |-> "absent"]

\* Line 273: pd.to_datetime(df['date'], format='%d-%m-%Y') of one text.
ToDatetime(text) == [year |-> text[3], month |-> text[2], day |-> text[1]]

\* Lines 272-273: the bundled table with its date column parsed.
ReadRkiFallback(file) ==
    [origin |-> "rki_fallback.csv", nrows |-> Len(file.rows),
     rows |-> [i \in DOMAIN file.rows |->
                  [file.rows[i] EXCEPT !.date = ToDatetime(file.rows[i].date)]],
     date |-> "datetime"]

RkiInit ==
    /\ rki_fallback \in [exists : BOOLEAN, rows : FallbackFiles]
    /\ rki_pc = "start"
    /\ n_data = 0
    /\ unique_ids = {}
    /\ id_pos = 0
    /\ df = EmptyFrame
    /\ rki_exc = "none"
    /\ rki_ret = EmptyFrame
    /\ requests = [enumeration |-> 0, region |-> 0]

RkiParked ==
    /\ rki_fallback = [exists |-> FALSE, rows |-> <<>>]
    /\ rki_pc = "parked"
    /\ n_data = 0
    /\ unique_ids = {}
    /\ id_pos = 0
    /\ df = EmptyFrame
    /\ rki_exc = "none"
    /\ rki_ret = EmptyFrame
    /\ requests = [enumeration |-> 0, region |-> 0]

\* Lines 231-245: the enumeration request (no try around urlopen) and the
\* test of the count.
EnumerateLandkreise ==
    /\ rki_pc = "start"
    /\ requests' = [requests EXCEPT !.enumeration = @ + 1]
    /\ \/ /\ rki_pc' = "raised" /\ rki_exc' = "URLError"
          /\ UNCHANGED <<n_data, unique_ids>>
       \/ \E n \in EnumCounts :
            /\ n_data' = n
            /\ unique_ids' = 1..n
            /\ rki_pc' = IF IsExpectedCount(n) THEN "loop" ELSE "fallback"
            /\ UNCHANGED rki_exc
    /\ UNCHANGED <<id_pos, df, rki_ret, rki_fallback>>
    /\ UNCHANGED <<cloneVars, jhuVars, focVars, frkiVars>>

\* Lines 248-257: the next idlandkreis, its request (no try around urlopen),
\* the count of its features and the limit check.
QueryLandkreis ==
    /\ rki_pc = "loop"
    /\ id_pos < Cardinality(unique_ids)
    /\ id_pos' = id_pos + 1
    /\ requests' = [requests EXCEPT !.region = @ + 1]
    /\ \/ /\ rki_pc' = "raised" /\ rki_exc' = "URLError"
          /\ UNCHANGED n_data
       \/ \E n \in RegionCounts :
            /\ df.nrows + n <= MaxLiveRows
            /\ n_data' = n
            /\ IF QueryLimitCheck(n) = "none"
               THEN rki_pc' = "concat" /\ UNCHANGED rki_exc
               ELSE rki_pc' = "raised" /\ rki_exc' = QueryLimitCheck(n)
    /\ UNCHANGED <<unique_ids, df, rki_ret, rki_fallback>>
    /\ UNCHANGED <<cloneVars, jhuVars, focVars, frkiVars>>

\* Lines 259-264: the n_data records are appended to df.
ConcatLandkreis ==
    /\ rki_pc = "concat"
    /\ df' = [df EXCEPT !.nrows = @ + n_data]
    /\ rki_pc' = "loop"
    /\ UNCHANGED <<n_data, unique_ids, id_pos, rki_exc, rki_ret, requests,
                   rki_fallback>>
    /\ UNCHANGED <<cloneVars, jhuVars, focVars, frkiVars>>

\* Lines 266 and 275: after the last idlandkreis the date column is added
\* and df is returned.
ReturnLive ==
    /\ rki_pc = "loop"
    /\ id_pos = Cardinality(unique_ids)
    /\ df' = [df EXCEPT !.date = "datetime"]
    /\ rki_ret' = df'
    /\ rki_pc' = "returned"
    /\ UNCHANGED <<n_data, unique_ids, id_pos, rki_exc, requests, rki_fallback>>
    /\ UNCHANGED <<cloneVars, jhuVars, focVars, frkiVars>>

\* Lines 268-275: the bundled file is read, its dates parsed, and returned;
\* a missing file propagates.
ReturnFallback ==
    /\ rki_pc = "fallback"
    /\ IF rki_fallback.exists
       THEN /\ df' = ReadRkiFallback(rki_fallback)
            /\ rki_ret' = df'
            /\ rki_pc' = "returned"
            /\ UNCHANGED rki_exc
       ELSE /\ rki_pc' = "raised" /\ rki_exc' = "FileNotFoundError"
            /\ UNCHANGED <<df, rki_ret>>
    /\ UNCHANGED <<n_data, unique_ids, id_pos, requests, rki_fallback>>
    /\ UNCHANGED <<cloneVars, jhuVars, focVars, frkiVars>>

(***************************************************************************)
(* filter_rki                                                              *)
(***************************************************************************)
\* Number of report days of an RKI table.
RkiDays == 2
\* Largest number of rows of an RKI table.
MaxRkiRows == 2

\* Columns of the table get_rki returns, as far as filter_rki reads them.
RkiColumns == {"Bundesland", "Landkreis", "AnzahlFall", "AnzahlTodesfall",
               "NeuerFall", "date"}

RkiRows == [Bundesland : {"Bayern", "Berlin"}, Landkreis : {"LK Hof"},
            AnzahlFall : {1, 2}, AnzahlTodesfall : {0}, NeuerFall : {1},
            date : 1..RkiDays]

\* The lists of lines 302 and 305; None is written "None".
ValidVariables == {"AnzahlFall", "AnzahlTodesfall", "Total"}
ValidLevels == {"Landkreis", "Bundesland", "None"}

\* What a caller may pass: accepted names, a numeric column outside the
\* list ("NeuerFall"), names that are no column at all ("Faelle", "Kreis"),
\* and as value a state of the table or one that no row has.
ArgVariables == {"AnzahlFall", "Total", "NeuerFall", "Faelle"}
ArgLevels == {"None", "Bundesland", "Kreis"}
ArgValues == {"Bayern", "Hamburg"}
FilterArgs == [begin_date : 1..RkiDays, end_date : 1..RkiDays,
               variable : ArgVariables, level : ArgLevels, value : ArgValues]

\* Lines 302-306: both checks build a ValueError and drop it, no raise
\* statement: nothing leaves them.
InputParsing(a) ==
    IF a.variable \notin ValidVariables THEN "none"
    ELSE IF a.level \notin ValidLevels THEN "none"
    ELSE "none"

\* Line 309: df['Total'] = df['NeuerFall'] + df['AnzahlFall'], an item
\* assignment on the frame the caller passed.
AddTotal(t) ==
    [columns |-> t.columns \cup {"Total"},
     rows |-> [i \in DOMAIN t.rows |->
                 [c \in t.columns \cup {"Total"} |->
                    IF c = "Total"
                    THEN t.rows[i].NeuerFall + t.rows[i].AnzahlFall
                    ELSE t.rows[i][c]]]]

RECURSIVE SelectRows(_, _, _)
\* df[df[col]==v]: the rows whose field col is v, order kept.
SelectRows(rows, col, v) ==
    IF rows = <<>> THEN <<>>
    ELSE IF Head(rows)[col] = v
         THEN <<Head(rows)>> \o SelectRows(Tail(rows), col, v)
         ELSE SelectRows(Tail(rows), col, v)

\* Line 313: df[df[level]==value][['date', value]]: the rows whose level
\* field is value, and of them the columns 'date' and value.  A KeyError
\* leaves when level or value names no column.
RestrictToLevel(t, a) ==
    IF a.level \notin t.columns \/ a.value \notin t.columns
    THEN [exc |-> "KeyError", table |-> t]
    ELSE LET kept == SelectRows(t.rows, a.level, a.value)
         IN  [exc |-> "none",
              table |-> [columns |-> {"date", a.value},
                         rows |-> [i \in DOMAIN kept |->
                                     [c \in {"date", a.value} |-> kept[i][c]]]]]

RECURSIVE SumColumn(_, _, _)
\* Sum of column col over the rows idxs.
SumColumn(rows, idxs, col) ==
    IF idxs = {} THEN 0
    ELSE LET i == CHOOSE x \in idxs : TRUE
         IN  rows[i][col] + SumColumn(rows, idxs \ {i}, col)

RECURSIVE Ascending(_)
\* The elements of a finite set of integers in ascending order.
Ascending(S) ==
    IF S = {} THEN <<>>
    ELSE LET m == CHOOSE x \in S : \A y \in S : x <= y
         IN  <<m>> \o Ascending(S \ {m})

\* Lines 315-317: groupby('date')[variable].sum().cumsum(), then the label
\* slice begin_date:end_date (both ends included) of the date-sorted series.
CumulativeSeries(t, a) ==
    IF a.variable \notin t.columns
    THEN [exc |-> "KeyError", value |-> <<>>]
    ELSE LET days == Ascending({d \in {t.rows[i].date : i \in DOMAIN t.rows} :
                                   a.begin_date <= d /\ d <= a.end_date})
         IN  [exc |-> "none",
              value |-> [k \in DOMAIN days |->
                           SumColumn(t.rows,
                                     {i \in DOMAIN t.rows : t.rows[i].date <= days[k]},
                                     a.variable)]]

\* Lines 301-317.  df is the caller's frame after the call.
filter_rki(t, a) ==
    IF InputParsing(a) # "none"
    THEN [exc |-> InputParsing(a), value |-> <<>>, df |-> t]
    ELSE LET t1 == IF a.variable = "Total" THEN AddTotal(t) ELSE t
             lv == IF a.level # "None" THEN RestrictToLevel(t1, a)
                   ELSE [exc |-> "none", table |-> t1]
         IN  IF lv.exc # "none"
             THEN [exc |-> lv.exc, value |-> <<>>, df |-> t1]
             ELSE LET r == CumulativeSeries(lv.table, a)
                  IN  [exc |-> r.exc, value |-> r.value, df |-> t1]

FrkiInit ==
    /\ frki_df \in [columns : {RkiColumns}, rows : SeqsUpTo(RkiRows, MaxRkiRows)]
    /\ frki_args = <<>>
    /\ frki_exc = "none"
    /\ frki_ret = <<>>

FrkiParked ==
    /\ frki_df = [columns |-> RkiColumns, rows |-> <<>>]
    /\ frki_args = <<>>
    /\ frki_exc = "none"
    /\ frki_ret = <<>>

\* One call of filter_rki on the caller's table; frki_args keeps the
\* arguments of the last call (<<>> before the first).
FilterRki ==
    /\ \E a \in FilterArgs :
         LET r == filter_rki(frki_df, a)
         IN  /\ frki_args' = <<a>>
             /\ frki_exc' = r.exc
             /\ frki_ret' = r.value
             /\ frki_df' = r.df
    /\ UNCHANGED <<cloneVars, jhuVars, rkiVars, focVars>>

(***************************************************************************)
(* Specifications: one per entry point, the others parked.                 *)
(***************************************************************************)
InitClone == CloneInit /\ JhuParked /\ RkiParked /\ FocParked /\ FrkiParked
NextClone == CheckTimezone \/ GitClone \/ GitRevList \/ GitCheckout
SpecClone == InitClone /\ [][NextClone]_vars

InitJhu == CloneParked /\ JhuInit /\ RkiParked /\ FocParked /\ FrkiParked
NextJhu == GetJhuConfirmedCases \/ GetJhuDeaths
SpecJhu == InitJhu /\ [][NextJhu]_vars

InitRki == CloneParked /\ JhuParked /\ RkiInit /\ FocParked /\ FrkiParked
NextRki ==
    \/ EnumerateLandkreise
    \/ QueryLandkreis
    \/ ConcatLandkreis
    \/ ReturnLive
    \/ ReturnFallback
SpecRki == InitRki /\ [][NextRki]_vars

InitCountry == CloneParked /\ JhuParked /\ RkiParked /\ FocInit /\ FrkiParked
NextCountry == FilterOneCountry
SpecCountry == InitCountry /\ [][NextCountry]_vars

InitFilterRki == CloneParked /\ JhuParked /\ RkiParked /\ FocParked /\ FrkiInit
NextFilterRki == FilterRki
SpecFilterRki == InitFilterRki /\ [][NextFilterRki]_vars

(***************************************************************************)
(* Properties.                                                             *)
(***************************************************************************)

\* C1 (SpecRki): whenever the enumeration gave a number of regions other
\* than 412, no per-region request has been made in the call, and a table
\* the call returns is the bundled fallback table: the rows of
\* data/rki_fallback.csv in order, each date text dd-mm-YYYY parsed.
C1_MismatchUsesFallback ==
    Cardinality(unique_ids) # ExpectedLandkreise =>
        /\ requests.region = 0
        /\ rki_pc = "returned" =>
             /\ rki_ret.origin = "rki_fallback.csv"
             /\ rki_ret.nrows = Len(rki_fallback.rows)
             /\ Len(rki_ret.rows) = Len(rki_fallback.rows)
             /\ \A i \in DOMAIN rki_fallback.rows :
                  /\ rki_ret.rows[i].AnzahlFall = rki_fallback.rows[i].AnzahlFall
                  /\ rki_ret.rows[i].date.day = rki_fallback.rows[i].date[1]
                  /\ rki_ret.rows[i].date.month = rki_fallback.rows[i].date[2]
                  /\ rki_ret.rows[i].date.year = rki_fallback.rows[i].date[3]

\* A call that enumerated 400 regions and returned the bundled rows.
C1_Witness ==
    /\ rki_pc = "returned"
    /\ Cardinality(unique_ids) = 400
    /\ requests = [enumeration |-> 1, region |-> 0]
    /\ rki_ret.origin = "rki_fallback.csv"
    /\ rki_ret.nrows = 2

\* C2 (SpecRki), as claimed: once a per-region query has answered with more
\* than 5000 records the call has ended with the quota error (the ValueError
\* of line 257); it neither goes on to append the records nor returns.
C2_QuotaExceededRaised ==
    n_data > QueryLimit => (rki_pc = "raised" /\ rki_exc = "ValueError")

\* C3 (SpecClone): a call whose checkout_time has no tzinfo is, once past its
\* entry, ended by the ValueError of line 36, and nothing external has been
\* done: no git command was run and the working directory is as it was.
C3_NaiveRejectedBeforeIO ==
    (checkout_time.tzinfo = <<>> /\ clone_pc # "start") =>
        /\ clone_pc = "raised"
        /\ clone_exc = "ValueError"
        /\ io_log = <<>>
        /\ repodir \in {NoDir, OtherDir}
        /\ clone_ret = <<>>

\* A naive timestamp was rejected.
C3_Witness ==
    /\ checkout_time.tzinfo = <<>>
    /\ clone_pc = "raised"
    /\ clone_exc = "ValueError"
    /\ io_log = <<>>

C5_InHeader(d) == d.year = 2020 /\ d.month = 1 /\ d.day \in 1..NDates
C5_RangeLen == IF end_date.day >= begin_date.day
               THEN end_date.day - begin_date.day + 1 ELSE 0

\* C5 (SpecCountry): with bare the rows whose region is the entity and whose
\* sub-region is missing, and a date range whose ends head columns: one
\* bare row gives that row's cells over the range; no bare row gives, per
\* date of the range, the sum of the cells present in the rows of the
\* region; more than one bare row gives RuntimeError and no sequence.
C5_DispatchOnBareRows ==
    foc_pc = "done" =>
        LET bare == {i \in DOMAIN data_df :
                        data_df[i].country = country /\ data_df[i].state = "NaN"}
            region == {i \in DOMAIN data_df : data_df[i].country = country}
            inRange == C5_InHeader(begin_date) /\ C5_InHeader(end_date)
        IN  /\ (Cardinality(bare) = 1 /\ inRange) =>
                 /\ foc_exc = "none"
                 /\ Len(cases_obs) = C5_RangeLen
                 /\ \A k \in 1..C5_RangeLen : \A i \in bare :
                      cases_obs[k] = data_df[i].cells[begin_date.day + k - 1]
            /\ (Cardinality(bare) = 0 /\ inRange) =>
                 /\ foc_exc = "none"
                 /\ Len(cases_obs) = C5_RangeLen
                 /\ \A k \in 1..C5_RangeLen :
                      LET j == begin_date.day + k - 1
                      IN  cases_obs[k] =
                            SumCells(data_df,
                                     {i \in region : data_df[i].cells[j] # NaN}, j)
            /\ Cardinality(bare) > 1 =>
                 /\ foc_exc = "RuntimeError"
                 /\ cases_obs = <<>>

\* The entity appears only as two sub-regions, and their sums over two
\* dates came back.
C5_Witness ==
    /\ foc_pc = "done"
    /\ Len(data_df) = 2
    /\ \A i \in DOMAIN data_df :
         data_df[i].country = country /\ data_df[i].state = "X"
    /\ foc_exc = "none"
    /\ cases_obs = <<2, 4>>

\* C6 (SpecClone): when git rev-list ran and what it printed is not a
\* 40-character hash, the call is ended by the Exception of line 51, git
\* checkout was not run, and the clone's head is not moved to a commit.
C6_NoCommitNoCheckout ==
    (/\ clone_pc \in {"checkout", "returned", "raised"}
     /\ "rev-list" \in Range(io_log)
     /\ clone_exc # "OSError"
     /\ Len(commit_id) # HashLen) =>
        /\ clone_pc = "raised"
        /\ clone_exc = "Exception"
        /\ "checkout" \notin Range(io_log)
        /\ repodir.head.ref # "detached"
        /\ clone_ret = <<>>

\* The requested time predates every commit of a cloned repository.
C6_Witness ==
    /\ repodir.state = "repo"
    /\ repodir.commits # {}
    /\ repodir.head.ref = "master"
    /\ commit_id = <<>>
    /\ clone_pc = "raised"
    /\ clone_exc = "Exception"
    /\ io_log = <<"clone", "rev-list">>

\* C7 (SpecFilterRki), as claimed: a call whose metric name or level name is
\* outside the accepted lists has ended with the ValueError of lines 303
\* and 306 and returned nothing.
C7_InvalidNamesRejected ==
    \A i \in DOMAIN frki_args :
        (frki_args[i].variable \notin ValidVariables
         \/ frki_args[i].level \notin ValidLevels) =>
            (frki_exc = "ValueError" /\ frki_ret = <<>>)

\* C8 (SpecRki), as claimed: no network failure of the enumeration request
\* or of a per-region request (a URLError of urlopen) leaves get_rki.
C8_NetworkFailureAbsorbed ==
    rki_exc # "URLError"

\* The metric of one row of the table as the caller holds it.
C9_Metric(r, variable) ==
    IF variable = "Total" THEN r.NeuerFall + r.AnzahlFall ELSE r[variable]

RECURSIVE C9_Sum(_, _, _)
C9_Sum(rows, idxs, variable) ==
    IF idxs = {} THEN 0
    ELSE LET i == CHOOSE x \in idxs : TRUE
         IN  C9_Metric(rows[i], variable) + C9_Sum(rows, idxs \ {i}, variable)

\* C9 (SpecFilterRki), as claimed: a call with an accepted metric returns,
\* for each report date in the range, the running sum of the metric over
\* the rows whose level field equals the value (all rows when the level is
\* None).
C9_LevelFilteredCumSum ==
    \A n \in DOMAIN frki_args :
        LET a == frki_args[n]
            sel == {i \in DOMAIN frki_df.rows :
                       a.level = "None" \/ frki_df.rows[i][a.level] = a.value}
            days == Ascending({d \in {frki_df.rows[i].date : i \in sel} :
                                  a.begin_date <= d /\ d <= a.end_date})
        IN  (a.variable \in ValidVariables /\ a.level \in ValidLevels) =>
                /\ frki_exc = "none"
                /\ Len(frki_ret) = Len(days)
                /\ \A k \in DOMAIN days :
                     frki_ret[k] =
                       C9_Sum(frki_df.rows,
                              {i \in sel : frki_df.rows[i].date <= days[k]},
                              a.variable)

\* C10 (SpecFilterRki), as claimed: no call of filter_rki changes the
\* columns or the rows of the table the caller passed.
C10_TableUnchanged ==
    [][frki_df' = frki_df]_vars

====
